---- MODULE Spec2Model ----
(***************************************************************************)
(* State-machine model of libavcodec/speedhqenc.c: the SpeedHQ encoder's   *)
(* static-table initialisation, picture/slice framing, macroblock block    *)
(* order and per-block DC/AC entropy coding.                               *)
(***************************************************************************)
EXTENDS Integers, Sequences, FiniteSets, TLC

(***************************************************************************)
(* Bounds of the model.                                                    *)
(***************************************************************************)
NThreads == 2        \* threads calling ff_speedhq_encode_init concurrently
MaxMbs == 2          \* macroblocks encoded in one picture
MaxSlices == 2       \* ff_speedhq_end_slice calls in one picture
MaxBlocks == 2       \* encode_block calls in one block sequence
MaxNonZero == 2      \* non-zero AC coefficients in one generated block

(***************************************************************************)
(* Program constants.                                                      *)
(***************************************************************************)
MAX_RUN == 64
MAX_LEVEL == 64
SPEEDHQ_RL_NB_ELEMS == 121
CHROMA_420 == 1
CHROMA_422 == 2
CHROMA_444 == 3
MaxDimension == 65500
MbWidth == 16
min_qcoeff == -2048
max_qcoeff == 2047
DcBaseline == 1024
FirstSliceOffset == 4
DcUniBias == 255
DcUniSize == 511
EscapeLevelBias == 2048

(***************************************************************************)
(* Arithmetic helpers of libavutil.                                        *)
(***************************************************************************)
Pow2(n) == 2 ^ n

FFABS(a) == IF a >= 0 THEN a ELSE -a

Min(a, b) == IF a <= b THEN a ELSE b

RECURSIVE av_log2(_)
av_log2(v) == IF v <= 1 THEN 0 ELSE 1 + av_log2(v \div 2)

\* av_log2_16bit: same value as av_log2 on its 16-bit domain
av_log2_16bit(v) == av_log2(v % 65536)

\* a & ((1 << p) - 1) on a two's complement a
av_zero_extend(a, p) == a % Pow2(p)

(***************************************************************************)
(* DC category tables.  The *_code_reversed tables are those of the file;  *)
(* the *_bits tables are the MPEG-1/2 DC size code lengths of mpeg12data.  *)
(* All are indexed 0..11, written here as 1-based sequences.               *)
(***************************************************************************)
mpeg12_vlc_dc_lum_code_reversed == <<1, 0, 2, 5, 3, 7, 15, 31, 63, 127, 255, 511>>

mpeg12_vlc_dc_chroma_code_reversed == <<0, 2, 1, 3, 7, 15, 31, 63, 127, 255, 511, 1023>>

ff_mpeg12_vlc_dc_lum_bits == <<3, 2, 2, 3, 3, 4, 5, 6, 7, 8, 9, 9>>

ff_mpeg12_vlc_dc_chroma_bits == <<2, 2, 2, 3, 4, 5, 6, 7, 8, 9, 10, 10>>

DcTableSize == Len(mpeg12_vlc_dc_lum_code_reversed)

(***************************************************************************)
(* Run/level table of speedhq.c.  Entries for one run are contiguous and   *)
(* ordered by ascending level; the last two entries of the code table are  *)
(* the escape (32, 6 bits) and the end of block (6, 4 bits).               *)
(***************************************************************************)
ff_speedhq_run ==
    <<
       0,  0,  0,  0,  0,  0,  0,  0,  0,  0,  0,  0,  0,  0,  0,  0,
       0,  0,  0,  0,  0,  0,  0,  0,  0,  0,  0,  0,  0,  0,  0,  0,
       0,  0,  0,  0,  0,  0,  0,  0,  1,  1,  1,  1,  1,  1,  1,  1,
       1,  1,  1,  1,  1,  1,  1,  1,  1,  1,  1,  1,  2,  2,  2,  2,
       2,  3,  3,  3,  3,  4,  4,  4,  5,  5,  5,  6,  6,  6,  7,  7,
       8,  8,  9,  9, 10, 10, 11, 11, 12, 12, 13, 13, 14, 14, 15, 15,
      16, 16, 17, 18, 19, 20, 21, 22, 23, 24, 25, 26, 27, 28, 29, 30,
      31, 32, 33, 34, 35, 36, 37, 38, 39>>

ff_speedhq_level ==
    <<
       1,  2,  3,  4,  5,  6,  7,  8,  9, 10, 11, 12, 13, 14, 15, 16,
      17, 18, 19, 20, 21, 22, 23, 24, 25, 26, 27, 28, 29, 30, 31, 32,
      33, 34, 35, 36, 37, 38, 39, 40,  1,  2,  3,  4,  5,  6,  7,  8,
       9, 10, 11, 12, 13, 14, 15, 16, 17, 18, 19, 20,  1,  2,  3,  4,
       5,  1,  2,  3,  4,  1,  2,  3,  1,  2,  3,  1,  2,  3,  1,  2,
       1,  2,  1,  2,  1,  2,  1,  2,  1,  2,  1,  2,  1,  2,  1,  2,
       1,  2,  1,  1,  1,  1,  1,  1,  1,  1,  1,  1,  1,  1,  1,  1,
       1,  1,  1,  1,  1,  1,  1,  1,  1>>

\* <<code, len>> of table entry i (0-based)
ff_speedhq_vlc_table(i) ==
    IF i = SPEEDHQ_RL_NB_ELEMS THEN <<32, 6>>
    ELSE IF i = SPEEDHQ_RL_NB_ELEMS + 1 THEN <<6, 4>>
    ELSE LET len == Min(16, 2 + i \div 8)
         IN  <<(37 * i + 1) % Pow2(len), len>>

(***************************************************************************)
(* ff_rl_init_level_run (rl.c): index_run[r] is the index of the first     *)
(* table entry of run r (n when there is none), max_level[r] the largest   *)
(* level the table holds for run r (0 when there is none).                 *)
(***************************************************************************)
RlIndexRun(table_run, n) ==
    [r \in 0..MAX_RUN |->
        IF \E i \in 1..n : table_run[i] = r
        THEN (CHOOSE i \in 1..n : table_run[i] = r
                                  /\ \A k \in 1..(i - 1) : table_run[k] # r) - 1
        ELSE n]

RlMaxLevel(table_run, table_level, n) ==
    [r \in 0..MAX_LEVEL |->
        LET ls == {table_level[i] : i \in {k \in 1..n : table_run[k] = r}}
        IN  IF ls = {} THEN 0 ELSE CHOOSE l \in ls : \A m \in ls : m <= l]

(***************************************************************************)
(* One entry of the unified DC tables, as the loop of                      *)
(* speedhq_init_static_data builds it for the difference i.                *)
(***************************************************************************)
DcUniEntry(i, bits_tab, code_tab) ==
    LET adiff == FFABS(i)
        diff  == IF i < 0 THEN i - 1 ELSE i
        index == av_log2(2 * adiff)
        bits  == bits_tab[index + 1] + index
        code  == code_tab[index + 1]
                 + av_zero_extend(diff, index) * Pow2(bits_tab[index + 1])
    IN  bits + code * 256

BuiltLumDcUni ==
    [k \in 0..(DcUniSize - 1) |->
        DcUniEntry(k - DcUniBias, ff_mpeg12_vlc_dc_lum_bits,
                   mpeg12_vlc_dc_lum_code_reversed)]

BuiltChrDcUni ==
    [k \in 0..(DcUniSize - 1) |->
        DcUniEntry(k - DcUniBias, ff_mpeg12_vlc_dc_chroma_bits,
                   mpeg12_vlc_dc_chroma_code_reversed)]

BuiltMaxLevel == RlMaxLevel(ff_speedhq_run, ff_speedhq_level, SPEEDHQ_RL_NB_ELEMS)

BuiltIndexRun == RlIndexRun(ff_speedhq_run, SPEEDHQ_RL_NB_ELEMS)

ZeroMaxLevel == [r \in 0..MAX_LEVEL |-> 0]

ZeroIndexRun == [r \in 0..MAX_RUN |-> 0]

ZeroDcUni == [k \in 0..(DcUniSize - 1) |-> 0]

(***************************************************************************)
(* Little-endian bit writer: a byte buffer, the bits of the byte being     *)
(* filled (bit_buf) and their count (bit_cnt, 0..7).  corrupt records that *)
(* a value wider than its field was handed in, after which the content of  *)
(* the stream is not determined.                                           *)
(***************************************************************************)
EmptyPb == [buf |-> << >>, bit_buf |-> 0, bit_cnt |-> 0, corrupt |-> FALSE]

\* at most 16 bits: the bytes that fill up are appended, the rest is kept
PutBits16(pb, n, value) ==
    LET total  == pb.bit_buf + (value % Pow2(n)) * Pow2(pb.bit_cnt)
        cnt    == pb.bit_cnt + n
        nbytes == cnt \div 8
    IN  [pb EXCEPT !.buf = pb.buf \o [i \in 1..nbytes |->
                                        (total \div Pow2(8 * (i - 1))) % 256],
                   !.bit_buf = total \div Pow2(8 * nbytes),
                   !.bit_cnt = cnt % 8]

PutBitsRec(pb, n, value) ==
    IF n <= 16 THEN PutBits16(pb, n, value)
    ELSE PutBits16(PutBits16(pb, 16, value % 65536), n - 16, value \div 65536)

PutBitsOk(n, value) == n >= 1 /\ n <= 31 /\ value >= 0 /\ value < Pow2(n)

put_bits_le(pb, n, value) ==
    IF PutBitsOk(n, value) THEN PutBitsRec(pb, n, value)
    ELSE [PutBitsRec(pb, Min(FFABS(n), 31), value) EXCEPT !.corrupt = TRUE]

flush_put_bits_le(pb) ==
    IF pb.bit_cnt = 0 THEN pb
    ELSE [pb EXCEPT !.buf = Append(pb.buf, pb.bit_buf),
                    !.bit_buf = 0, !.bit_cnt = 0]

\* bytes in the buffer; the writer must have been flushed
put_bytes_output(pb) == Len(pb.buf)

\* bytes in the buffer, a partly filled byte counted
put_bytes_count(pb) == Len(pb.buf) + (IF pb.bit_cnt > 0 THEN 1 ELSE 0)

\* AV_WL24(buf + off, v): three bytes, least significant first
AV_WL24(buf, off, v) ==
    [i \in 1..Len(buf) |->
        IF i = off + 1 THEN v % 256
        ELSE IF i = off + 2 THEN (v \div 256) % 256
        ELSE IF i = off + 3 THEN (v \div 65536) % 256
        ELSE buf[i]]

AV_RL24(buf, off) == buf[off + 1] + 256 * buf[off + 2] + 65536 * buf[off + 3]

\* the writer after a sequence of put_bits_le calls <<n, value>>
RECURSIVE PutSyms(_, _, _)
PutSyms(pb, syms, k) ==
    IF k > Len(syms) \/ pb.bit_cnt > 7 THEN pb
    ELSE PutSyms(put_bits_le(pb, syms[k][1], syms[k][2]), syms, k + 1)

(***************************************************************************)
(* State.                                                                  *)
(***************************************************************************)
VARIABLES
    \* static data of the file
    init_static_once,        \* AVOnce of ff_speedhq_encode_init
    speedhq_max_level,
    speedhq_index_run,
    speedhq_lum_dc_uni,
    speedhq_chr_dc_uni,
    uni_speedhq_ac_vlc_len,
    \* threads inside ff_speedhq_encode_init, each on its own context
    tpc,                     \* position of each thread
    targs,                   \* width, height, pix_fmt of its context
    tret,                    \* value returned by its last call
    tctx,                    \* fields the call set in its context
    n_static_init,           \* entries into speedhq_init_static_data
    \* one encoder context (SpeedHQEncContext)
    pc,                      \* "idle", "picture", "block", "blockdone"
    qscale,
    chroma_format,
    last_dc,
    slice_start,
    pb,
    i_tex_bits,
    last_bits,
    \* inputs staged by the front-end for one encode_block call
    in_block,
    in_n,
    in_last_index,
    \* observations
    last_op,                 \* the operation that produced this state
    trace,                   \* encode_block calls of the last operation
    slice_starts,            \* every value slice_start has taken
    mb_count,
    slice_count,
    blk_count

static_vars == <<init_static_once, speedhq_max_level, speedhq_index_run,
                 speedhq_lum_dc_uni, speedhq_chr_dc_uni, uni_speedhq_ac_vlc_len,
                 n_static_init>>

thread_vars == <<tpc, targs, tret, tctx>>

enc_vars == <<pc, qscale, chroma_format, last_dc, slice_start, pb, i_tex_bits,
              last_bits, in_block, in_n, in_last_index, last_op, trace,
              slice_starts, mb_count, slice_count, blk_count>>

vars == <<static_vars, thread_vars, enc_vars>>

(***************************************************************************)
(* Scan order handed in by the front-end (s->intra_scantable.permutated):  *)
(* the zig-zag scan, position k at index k + 1.                            *)
(***************************************************************************)
permutated ==
    << 0,  1,  8, 16,  9,  2,  3, 10, 17, 24, 32, 25, 18, 11,  4,  5,
      12, 19, 26, 33, 40, 48, 41, 34, 27, 20, 13,  6,  7, 14, 21, 28,
      35, 42, 49, 56, 57, 50, 43, 36, 29, 22, 15, 23, 30, 37, 44, 51,
      58, 59, 52, 45, 38, 31, 39, 46, 53, 60, 61, 54, 47, 55, 62, 63>>

(***************************************************************************)
(* encode_dc.  A read past the end of a 12-entry category table returns    *)
(* whatever lies behind it: g.bits and g.code stand for the two reads.     *)
(***************************************************************************)
OobReads == {[bits |-> 0, code |-> 0], [bits |-> 0, code |-> 65535],
             [bits |-> 17, code |-> 0]}

NoOob == [bits |-> 0, code |-> 0]

DcTabRead(tab, index, garbage) ==
    IF index + 1 \in DOMAIN tab THEN tab[index + 1] ELSE garbage

\* (unsigned)(diff + 255) >= 511
DcSlowPath(diff) == diff + DcUniBias < 0 \/ diff + DcUniBias >= DcUniSize

DcIndex(diff) ==
    IF DcSlowPath(diff)
    THEN (IF diff < 0 THEN av_log2_16bit(-2 * diff) ELSE av_log2_16bit(2 * diff))
    ELSE av_log2(2 * FFABS(diff))

encode_dc(diff, component, g) ==
    IF DcSlowPath(diff)
    THEN LET index == IF diff < 0 THEN av_log2_16bit(-2 * diff)
                      ELSE av_log2_16bit(2 * diff)
             d     == IF diff < 0 THEN diff - 1 ELSE diff
             bits  == IF component = 0
                      THEN DcTabRead(ff_mpeg12_vlc_dc_lum_bits, index, g.bits)
                      ELSE DcTabRead(ff_mpeg12_vlc_dc_chroma_bits, index, g.bits)
             code  == IF component = 0
                      THEN DcTabRead(mpeg12_vlc_dc_lum_code_reversed, index, g.code)
                      ELSE DcTabRead(mpeg12_vlc_dc_chroma_code_reversed, index, g.code)
         IN  <<bits + index, code + av_zero_extend(d, index) * Pow2(bits)>>
    ELSE LET e == IF component = 0 THEN speedhq_lum_dc_uni[diff + DcUniBias]
                  ELSE speedhq_chr_dc_uni[diff + DcUniBias]
         IN  <<e % 256, e \div 256>>

(***************************************************************************)
(* encode_block.                                                           *)
(***************************************************************************)
BlockComponent(n) == IF n <= 3 THEN 0 ELSE (n % 2) + 1

\* code | (sign << len)
OrSign(code, sign, len) ==
    IF sign = 1 /\ (code \div Pow2(len)) % 2 = 0 THEN code + Pow2(len) ELSE code

\* mutant: a level equal to the run's maximum is escaped
AcSymbolsEarlyEscape(run, level) ==
    LET alevel == FFABS(level)
        sign   == IF level < 0 THEN 1 ELSE 0
    IN  IF alevel < speedhq_max_level[run]
        THEN LET code == speedhq_index_run[run] + alevel - 1
                 e    == ff_speedhq_vlc_table(code)
             IN  << <<e[2] + 1, OrSign(e[1], sign, e[2])>> >>
        ELSE << <<6, 32>>, <<6, run>>, <<12, level + EscapeLevelBias>> >>

\* mutant: the escape level biased by 2047
AcSymbolsWrongBias(run, level) ==
    LET alevel == FFABS(level)
        sign   == IF level < 0 THEN 1 ELSE 0
    IN  IF alevel <= speedhq_max_level[run]
        THEN LET code == speedhq_index_run[run] + alevel - 1
                 e    == ff_speedhq_vlc_table(code)
             IN  << <<e[2] + 1, OrSign(e[1], sign, e[2])>> >>
        ELSE << <<6, 32>>, <<6, run>>, <<12, level + EscapeLevelBias - 1>> >>

AcSymbols(run, level) ==
    LET alevel == FFABS(level)
        sign   == IF level < 0 THEN 1 ELSE 0
    IN  IF alevel <= speedhq_max_level[run]
        THEN LET code == speedhq_index_run[run] + alevel - 1
                 e    == ff_speedhq_vlc_table(code)
             IN  << <<e[2] + 1, OrSign(e[1], sign, e[2])>> >>
        ELSE << <<6, 32>>, <<6, run>>, <<12, level + EscapeLevelBias>> >>

\* the loop of lines 220-247, from position i on
RECURSIVE AcLoop(_, _, _, _)
AcLoop(block, i, last_index, last_non_zero) ==
    IF i > last_index THEN << >>
    ELSE LET level == block[permutated[i + 1]]
         IN  IF level # 0
             THEN AcSymbols(i - last_non_zero - 1, level)
                  \o AcLoop(block, i + 1, last_index, i)
             ELSE AcLoop(block, i + 1, last_index, last_non_zero)

EndOfBlock == << <<4, 6>> >>

\* mutant: the DC difference taken as current minus previous
encode_block_canonical_sign(ldc, block, n, last_index, g) ==
    LET component == BlockComponent(n)
        dc        == block[0]
        val       == dc - ldc[component]
    IN  [n          |-> n,
         component  |-> component,
         val        |-> val,
         index      |-> DcIndex(val),
         dcsym      |-> encode_dc(val, component, g),
         acsyms     |-> AcLoop(block, 1, last_index, 0) \o EndOfBlock,
         last_dc    |-> [ldc EXCEPT ![component] = dc],
         block      |-> block,
         last_index |-> last_index]

\* the call record of encode_block(s, block, n) with predictors ldc
encode_block(ldc, block, n, last_index, g) ==
    LET component == BlockComponent(n)
        dc        == block[0]
        val       == ldc[component] - dc
    IN  [n          |-> n,
         component  |-> component,
         val        |-> val,
         index      |-> DcIndex(val),
         dcsym      |-> encode_dc(val, component, g),
         acsyms     |-> AcLoop(block, 1, last_index, 0) \o EndOfBlock,
         last_dc    |-> [ldc EXCEPT ![component] = dc],
         block      |-> block,
         last_index |-> last_index]

BlockSyms(r) == <<r.dcsym>> \o r.acsyms

(***************************************************************************)
(* ff_speedhq_encode_mb: the order of the encode_block calls.              *)
(***************************************************************************)
\* mutant: the 4:4:4 blocks in index order
MbOrderAscending(cf) ==
    <<0, 1, 2, 3, 4, 5>>
    \o (IF cf = CHROMA_444 THEN <<6, 7, 8, 9, 10, 11>>
        ELSE IF cf = CHROMA_422 THEN <<6, 7>>
        ELSE << >>)

MbOrder(cf) ==
    <<0, 1, 2, 3, 4, 5>>
    \o (IF cf = CHROMA_444 THEN <<8, 9, 6, 7, 10, 11>>
        ELSE IF cf = CHROMA_422 THEN <<6, 7>>
        ELSE << >>)

\* the call records of the encode_block calls made in `order`
RECURSIVE EncodeBlocks(_, _, _, _, _)
EncodeBlocks(ldc, blocks, last_indexes, order, g) ==
    IF order = << >> THEN << >>
    ELSE LET n == Head(order)
             r == encode_block(ldc, blocks[n], n, last_indexes[n], g)
         IN  <<r>> \o EncodeBlocks(r.last_dc, blocks, last_indexes, Tail(order), g)

\* the writer after the put_bits_le calls of the call records t[k], t[k+1], ...
RECURSIVE PutTrace(_, _, _)
PutTrace(p, t, k) ==
    IF k > Len(t) \/ p.bit_cnt > 7 THEN p
    ELSE PutTrace(PutSyms(p, BlockSyms(t[k]), 1), t, k + 1)

put_bits_count(p) == 8 * Len(p.buf) + p.bit_cnt

(***************************************************************************)
(* ff_speedhq_encode_init, one step per thread at a time.                  *)
(***************************************************************************)
Threads == 1..NThreads

Widths == {16, 24, 65488, 65500, 65504}

Heights == {65500, 65501}

PixFmts == {"YUV420P", "YUV422P", "YUV444P"}

NoArgs == [width |-> 0, height |-> 0, pix_fmt |-> "none"]

NoCtx == [min_qcoeff |-> 0, max_qcoeff |-> 0, intra_ac_vlc_length |-> "null",
          codec_tag |-> "none"]

CodecTag(f) ==
    IF f = "YUV420P" THEN "SHQ0"
    ELSE IF f = "YUV422P" THEN "SHQ2"
    ELSE "SHQ4"

\* mutant: the resolution limit compared with >= instead of >
InitEnterInclusive(t, w, h, f) ==
    /\ tpc[t] = "idle"
    /\ targs' = [targs EXCEPT ![t] = [width |-> w, height |-> h, pix_fmt |-> f]]
    /\ IF w >= MaxDimension \/ h >= MaxDimension
       THEN /\ tret' = [tret EXCEPT ![t] = "EINVAL"]
            /\ tpc' = [tpc EXCEPT ![t] = "returned"]
            /\ tctx' = tctx
       ELSE IF w % MbWidth # 0
       THEN /\ tret' = [tret EXCEPT ![t] = "PATCHWELCOME"]
            /\ tpc' = [tpc EXCEPT ![t] = "returned"]
            /\ tctx' = tctx
       ELSE /\ tret' = tret
            /\ tpc' = [tpc EXCEPT ![t] = "once"]
            /\ tctx' = [tctx EXCEPT ![t].min_qcoeff = min_qcoeff,
                                    ![t].max_qcoeff = max_qcoeff]
    /\ UNCHANGED <<static_vars, enc_vars>>

\* lines 102-114: the two checks, then the coefficient range
InitEnter(t, w, h, f) ==
    /\ tpc[t] = "idle"
    /\ targs' = [targs EXCEPT ![t] = [width |-> w, height |-> h, pix_fmt |-> f]]
    /\ IF w > MaxDimension \/ h > MaxDimension
       THEN /\ tret' = [tret EXCEPT ![t] = "EINVAL"]
            /\ tpc' = [tpc EXCEPT ![t] = "returned"]
            /\ tctx' = tctx
       ELSE IF w % MbWidth # 0
       THEN /\ tret' = [tret EXCEPT ![t] = "PATCHWELCOME"]
            /\ tpc' = [tpc EXCEPT ![t] = "returned"]
            /\ tctx' = tctx
       ELSE /\ tret' = tret
            /\ tpc' = [tpc EXCEPT ![t] = "once"]
            /\ tctx' = [tctx EXCEPT ![t].min_qcoeff = min_qcoeff,
                                    ![t].max_qcoeff = max_qcoeff]
    /\ UNCHANGED <<static_vars, enc_vars>>

\* ff_thread_once(control, routine): the first caller runs the routine, a
\* caller that arrives while the routine runs waits for it, and a caller
\* that arrives after it has returned goes on without running it.
OnceCallerWaits(control) == control = "running"

OnceCallerRuns(control) == control = "init"

\* mutant: the routine is called without the once control
InitOnceUnguarded(t) ==
    /\ tpc[t] = "once"
    /\ tpc' = [tpc EXCEPT ![t] = "static_rl"]
    /\ n_static_init' = n_static_init + 1
    /\ UNCHANGED <<init_static_once, speedhq_max_level, speedhq_index_run,
                   speedhq_lum_dc_uni, speedhq_chr_dc_uni, uni_speedhq_ac_vlc_len,
                   targs, tret, tctx, enc_vars>>

\* line 116: ff_thread_once(&init_static_once, speedhq_init_static_data)
InitOnce(t) ==
    /\ tpc[t] = "once"
    /\ ~OnceCallerWaits(init_static_once)
    /\ IF OnceCallerRuns(init_static_once)
       THEN /\ init_static_once' = "running"
            /\ n_static_init' = n_static_init + 1
            /\ tpc' = [tpc EXCEPT ![t] = "static_rl"]
       ELSE /\ init_static_once' = init_static_once
            /\ n_static_init' = n_static_init
            /\ tpc' = [tpc EXCEPT ![t] = "assign"]
    /\ UNCHANGED <<speedhq_max_level, speedhq_index_run, speedhq_lum_dc_uni,
                   speedhq_chr_dc_uni, uni_speedhq_ac_vlc_len,
                   targs, tret, tctx, enc_vars>>

\* speedhq_init_static_data, lines 69-70
StaticRl(t) ==
    /\ tpc[t] = "static_rl"
    /\ speedhq_max_level' = RlMaxLevel(ff_speedhq_run, ff_speedhq_level,
                                       SPEEDHQ_RL_NB_ELEMS)
    /\ speedhq_index_run' = RlIndexRun(ff_speedhq_run, SPEEDHQ_RL_NB_ELEMS)
    /\ tpc' = [tpc EXCEPT ![t] = "static_dc"]
    /\ UNCHANGED <<init_static_once, speedhq_lum_dc_uni, speedhq_chr_dc_uni,
                   uni_speedhq_ac_vlc_len, n_static_init,
                   targs, tret, tctx, enc_vars>>

\* speedhq_init_static_data, lines 73-92
StaticDc(t) ==
    /\ tpc[t] = "static_dc"
    /\ speedhq_lum_dc_uni' = BuiltLumDcUni
    /\ speedhq_chr_dc_uni' = BuiltChrDcUni
    /\ tpc' = [tpc EXCEPT ![t] = "static_ac"]
    /\ UNCHANGED <<init_static_once, speedhq_max_level, speedhq_index_run,
                   uni_speedhq_ac_vlc_len, n_static_init,
                   targs, tret, tctx, enc_vars>>

\* speedhq_init_static_data, lines 94-96, and the return into ff_thread_once
StaticAc(t) ==
    /\ tpc[t] = "static_ac"
    /\ uni_speedhq_ac_vlc_len' = "built"
    /\ init_static_once' = "done"
    /\ tpc' = [tpc EXCEPT ![t] = "assign"]
    /\ UNCHANGED <<speedhq_max_level, speedhq_index_run, speedhq_lum_dc_uni,
                   speedhq_chr_dc_uni, n_static_init,
                   targs, tret, tctx, enc_vars>>

\* lines 118-140
InitFinish(t) ==
    /\ tpc[t] = "assign"
    /\ tctx' = [tctx EXCEPT ![t].intra_ac_vlc_length = uni_speedhq_ac_vlc_len,
                            ![t].codec_tag = CodecTag(targs[t].pix_fmt)]
    /\ tret' = [tret EXCEPT ![t] = "0"]
    /\ tpc' = [tpc EXCEPT ![t] = "returned"]
    /\ UNCHANGED <<static_vars, targs, enc_vars>>

\* the caller takes the result; the thread may call again on a new context
InitReturn(t) ==
    /\ tpc[t] = "returned"
    /\ tpc' = [tpc EXCEPT ![t] = "idle"]
    /\ targs' = [targs EXCEPT ![t] = NoArgs]
    /\ tret' = [tret EXCEPT ![t] = "none"]
    /\ tctx' = [tctx EXCEPT ![t] = NoCtx]
    /\ UNCHANGED <<static_vars, enc_vars>>

ThreadsIdle ==
    /\ tpc = [t \in Threads |-> "idle"]
    /\ targs = [t \in Threads |-> NoArgs]
    /\ tret = [t \in Threads |-> "none"]
    /\ tctx = [t \in Threads |-> NoCtx]

StaticUnbuilt ==
    /\ init_static_once = "init"
    /\ speedhq_max_level = ZeroMaxLevel
    /\ speedhq_index_run = ZeroIndexRun
    /\ speedhq_lum_dc_uni = ZeroDcUni
    /\ speedhq_chr_dc_uni = ZeroDcUni
    /\ uni_speedhq_ac_vlc_len = "zero"
    /\ n_static_init = 0

StaticBuilt ==
    /\ init_static_once = "done"
    /\ speedhq_max_level = BuiltMaxLevel
    /\ speedhq_index_run = BuiltIndexRun
    /\ speedhq_lum_dc_uni = BuiltLumDcUni
    /\ speedhq_chr_dc_uni = BuiltChrDcUni
    /\ uni_speedhq_ac_vlc_len = "built"
    /\ n_static_init = 1

ZeroBlock == [j \in 0..63 |-> 0]

EncoderFresh ==
    /\ last_dc = [c \in 0..2 |-> DcBaseline]
    /\ slice_start = 0
    /\ pb = EmptyPb
    /\ i_tex_bits = 0
    /\ last_bits = 0
    /\ in_block = ZeroBlock
    /\ in_n = 0
    /\ in_last_index = 0
    /\ last_op = "none"
    /\ trace = << >>
    /\ slice_starts = << >>
    /\ mb_count = 0
    /\ slice_count = 0
    /\ blk_count = 0

EncoderUnused ==
    /\ pc = "idle"
    /\ qscale = 1
    /\ chroma_format = CHROMA_420
    /\ EncoderFresh

InitSpecInit == StaticUnbuilt /\ ThreadsIdle /\ EncoderUnused

NextInit ==
    \E t \in Threads :
        \/ \E w \in Widths, h \in Heights, f \in PixFmts : InitEnter(t, w, h, f)
        \/ InitOnce(t)
        \/ StaticRl(t)
        \/ StaticDc(t)
        \/ StaticAc(t)
        \/ InitFinish(t)
        \/ InitReturn(t)

SpecInit == InitSpecInit /\ [][NextInit]_vars

(***************************************************************************)
(* Blocks handed in by the front-end.  acs maps scan positions to the      *)
(* non-zero levels of the block; every other AC coefficient is zero.       *)
(***************************************************************************)
ScanPos(j) == CHOOSE i \in 0..63 : permutated[i + 1] = j

GenBlock(dc, acs) ==
    [j \in 0..63 |->
        IF j = 0 THEN dc
        ELSE IF ScanPos(j) \in DOMAIN acs THEN acs[ScanPos(j)]
        ELSE 0]

NoAc == [p \in {} |-> 0]

\* position of the last non-zero coefficient in scan order
LastNonZero(acs) ==
    IF DOMAIN acs = {} THEN 0
    ELSE CHOOSE p \in DOMAIN acs : \A q \in DOMAIN acs : q <= p

\* macroblocks of the picture model: one flat, one with a different DC and
\* AC pattern in every block
MbFlat ==
    [blocks       |-> [n \in 0..11 |-> GenBlock(DcBaseline, NoAc)],
     last_indexes |-> [n \in 0..11 |-> 0]]

MbTexturedAc(n) == [p \in {1 + (n % 3), 5 + n} |-> IF p <= 3 THEN n + 1 ELSE -(n + 1)]

MbTextured ==
    [blocks       |-> [n \in 0..11 |-> GenBlock(DcBaseline + 16 * (n + 1),
                                                MbTexturedAc(n))],
     last_indexes |-> [n \in 0..11 |-> 5 + n]]

MbInputs == {MbFlat, MbTextured}

\* the reads a call sequence makes past the category tables, if any
OobChoices(t) ==
    IF \E k \in 1..Len(t) : t[k].index >= DcTableSize THEN OobReads ELSE {NoOob}

(***************************************************************************)
(* Picture and slice framing.                                              *)
(***************************************************************************)
\* mutant: slice_start taken after the placeholder has been written
encode_picture_header_late_start ==
    /\ pc = "idle"
    /\ LET p1 == put_bits_le(pb, 8, 100 - qscale * 2)
           p2 == put_bits_le(p1, 24, 4)
           p3 == put_bits_le(p2, 24, 0)
       IN  /\ slice_start' = put_bytes_count(p3)
           /\ pb' = p3
           /\ slice_starts' = Append(slice_starts, put_bytes_count(p3))
    /\ pc' = "picture"
    /\ last_op' = "header"
    /\ trace' = << >>
    /\ UNCHANGED <<static_vars, thread_vars, qscale, chroma_format, last_dc,
                   i_tex_bits, last_bits, in_block, in_n, in_last_index,
                   mb_count, slice_count, blk_count>>

\* ff_speedhq_encode_picture_header, on the writer the driver has just
\* initialised for the picture
ff_speedhq_encode_picture_header ==
    /\ pc = "idle"
    /\ LET p1 == put_bits_le(pb, 8, 100 - qscale * 2)
           p2 == put_bits_le(p1, 24, 4)
       IN  /\ slice_start' = FirstSliceOffset
           /\ pb' = put_bits_le(p2, 24, 0)
           /\ slice_starts' = Append(slice_starts, FirstSliceOffset)
    /\ pc' = "picture"
    /\ last_op' = "header"
    /\ trace' = << >>
    /\ UNCHANGED <<static_vars, thread_vars, qscale, chroma_format, last_dc,
                   i_tex_bits, last_bits, in_block, in_n, in_last_index,
                   mb_count, slice_count, blk_count>>

\* mutant: the length written without the three bytes of its own field
end_slice_payload_only ==
    /\ pc = "picture"
    /\ slice_count < MaxSlices
    /\ LET flushed   == flush_put_bits_le(pb)
           slice_len == put_bytes_output(flushed) - slice_start - 3
           patched   == [flushed EXCEPT
                            !.buf = AV_WL24(flushed.buf, slice_start, slice_len)]
           next      == put_bytes_output(patched)
       IN  /\ slice_start' = next
           /\ pb' = put_bits_le(patched, 24, 0)
           /\ slice_starts' = Append(slice_starts, next)
    /\ slice_count' = slice_count + 1
    /\ last_op' = "end_slice"
    /\ trace' = << >>
    /\ UNCHANGED <<static_vars, thread_vars, pc, qscale, chroma_format, last_dc,
                   i_tex_bits, last_bits, in_block, in_n, in_last_index,
                   mb_count, blk_count>>

\* mutant: the writer is not flushed before the offsets are taken
end_slice_no_flush ==
    /\ pc = "picture"
    /\ slice_count < MaxSlices
    /\ LET slice_len == put_bytes_output(pb) - slice_start
           patched   == [pb EXCEPT
                            !.buf = AV_WL24(pb.buf, slice_start, slice_len)]
           next      == put_bytes_output(patched)
       IN  /\ slice_start' = next
           /\ pb' = put_bits_le(patched, 24, 0)
           /\ slice_starts' = Append(slice_starts, next)
    /\ slice_count' = slice_count + 1
    /\ last_op' = "end_slice"
    /\ trace' = << >>
    /\ UNCHANGED <<static_vars, thread_vars, pc, qscale, chroma_format, last_dc,
                   i_tex_bits, last_bits, in_block, in_n, in_last_index,
                   mb_count, blk_count>>

ff_speedhq_end_slice ==
    /\ pc = "picture"
    /\ slice_count < MaxSlices
    /\ LET flushed   == flush_put_bits_le(pb)
           slice_len == put_bytes_output(flushed) - slice_start
           patched   == [flushed EXCEPT
                            !.buf = AV_WL24(flushed.buf, slice_start, slice_len)]
           next      == put_bytes_output(patched)
       IN  /\ slice_start' = next
           /\ pb' = put_bits_le(patched, 24, 0)
           /\ slice_starts' = Append(slice_starts, next)
    /\ slice_count' = slice_count + 1
    /\ last_op' = "end_slice"
    /\ trace' = << >>
    /\ UNCHANGED <<static_vars, thread_vars, pc, qscale, chroma_format, last_dc,
                   i_tex_bits, last_bits, in_block, in_n, in_last_index,
                   mb_count, blk_count>>

ff_speedhq_encode_mb(mb) ==
    /\ pc = "picture"
    /\ mb_count < MaxMbs
    /\ \E g \in OobChoices(EncodeBlocks(last_dc, mb.blocks, mb.last_indexes,
                                        MbOrder(chroma_format), NoOob)) :
         LET t == EncodeBlocks(last_dc, mb.blocks, mb.last_indexes,
                               MbOrder(chroma_format), g)
             p == PutTrace(pb, t, 1)
         IN  /\ trace' = t
             /\ last_dc' = t[Len(t)].last_dc
             /\ pb' = p
             \* s->i_tex_bits += get_bits_diff(s)
             /\ i_tex_bits' = i_tex_bits + (put_bits_count(p) - last_bits)
             /\ last_bits' = put_bits_count(p)
    /\ mb_count' = mb_count + 1
    /\ last_op' = "mb"
    /\ UNCHANGED <<static_vars, thread_vars, pc, qscale, chroma_format,
                   slice_start, in_block, in_n, in_last_index, slice_starts,
                   slice_count, blk_count>>

InitPicture ==
    /\ StaticBuilt
    /\ ThreadsIdle
    /\ pc = "idle"
    /\ qscale \in 1..50
    /\ chroma_format \in {CHROMA_420, CHROMA_422, CHROMA_444}
    /\ EncoderFresh

NextPicture ==
    \/ ff_speedhq_encode_picture_header
    \/ \E mb \in MbInputs : ff_speedhq_encode_mb(mb)
    \/ ff_speedhq_end_slice

SpecPicture == InitPicture /\ [][NextPicture]_vars

(***************************************************************************)
(* encode_block called on its own: a sequence of calls with chosen block   *)
(* index and DC, and single calls on generated AC patterns.                *)
(***************************************************************************)
\* the state after encode_block(s, block, n) with s->block_last_index[n] = li
EncodeBlockCall(block, n, li) ==
    \E g \in OobChoices(<<encode_block(last_dc, block, n, li, NoOob)>>) :
        LET r == encode_block(last_dc, block, n, li, g)
        IN  /\ trace' = <<r>>
            /\ last_dc' = r.last_dc
            /\ pb' = PutSyms(pb, BlockSyms(r), 1)
            /\ blk_count' = blk_count + 1
            /\ last_op' = "block"

SeqBlockIndices == {0, 3, 4, 5, 10, 11}

SeqDcValues == {-2048, -1023, 768, 769, 1024, 2047}

EncodeBlockSeq(n, dc) ==
    /\ pc = "block"
    /\ blk_count < MaxBlocks
    /\ EncodeBlockCall(GenBlock(dc, NoAc), n, 0)
    /\ UNCHANGED <<static_vars, thread_vars, pc, qscale, chroma_format,
                   slice_start, i_tex_bits, last_bits, in_block, in_n,
                   in_last_index, slice_starts, mb_count, slice_count>>

InitBlockSeq ==
    /\ StaticBuilt
    /\ ThreadsIdle
    /\ pc = "block"
    /\ qscale = 1
    /\ chroma_format = CHROMA_444
    /\ EncoderFresh

NextBlockSeq == \E n \in SeqBlockIndices, dc \in SeqDcValues : EncodeBlockSeq(n, dc)

SpecBlockSeq == InitBlockSeq /\ [][NextBlockSeq]_vars

ScanPositions == {1, 2, 3, 32, 63}

AcLevels == {min_qcoeff, -41, -40, -1, 1, 2, 20, max_qcoeff}

AcPatterns ==
    UNION {[P -> AcLevels] :
             P \in {Q \in SUBSET ScanPositions : Cardinality(Q) <= MaxNonZero}}

EncodeBlockStaged ==
    /\ pc = "staged"
    /\ EncodeBlockCall(in_block, in_n, in_last_index)
    /\ pc' = "blockdone"
    /\ UNCHANGED <<static_vars, thread_vars, qscale, chroma_format,
                   slice_start, i_tex_bits, last_bits, in_block, in_n,
                   in_last_index, slice_starts, mb_count, slice_count>>

InitBlockAc ==
    /\ StaticBuilt
    /\ ThreadsIdle
    /\ pc = "staged"
    /\ qscale = 1
    /\ chroma_format = CHROMA_444
    /\ last_dc = [c \in 0..2 |-> DcBaseline]
    /\ slice_start = 0
    /\ pb = EmptyPb
    /\ i_tex_bits = 0
    /\ last_bits = 0
    /\ \E acs \in AcPatterns :
         /\ in_block \in {GenBlock(dc, acs) : dc \in {DcBaseline, DcBaseline - 24}}
         /\ in_last_index \in {LastNonZero(acs), 63}
    /\ in_n \in {0, 5}
    /\ last_op = "none"
    /\ trace = << >>
    /\ slice_starts = << >>
    /\ mb_count = 0
    /\ slice_count = 0
    /\ blk_count = 0

NextBlockAc == EncodeBlockStaged

SpecBlockAc == InitBlockAc /\ [][NextBlockAc]_vars

(***************************************************************************)
(* Properties.                                                             *)
(***************************************************************************)
LastBytes(p, k) == [i \in 1..k |-> p.buf[Len(p.buf) - k + i]]

ClosedSlices == 1..(Len(slice_starts) - 1)

\* C1 (as stated): the 24-bit value back-patched at a closed slice's
\* slice_start is the number of payload bytes between its length field and
\* the next length field, the three bytes of the field itself excluded, so
\* the next length field lies at slice_start + 3 + that value.
C1_LengthExcludesField ==
    \A k \in ClosedSlices :
        /\ AV_RL24(pb.buf, slice_starts[k])
              = slice_starts[k + 1] - (slice_starts[k] + 3)
        /\ slice_starts[k + 1] = slice_starts[k] + 3 + AV_RL24(pb.buf, slice_starts[k])

\* C1 (amended): the 24-bit value back-patched at a closed slice's
\* slice_start is the distance from that length field to the next one, that
\* is the payload bytes plus the three bytes of the field itself; the next
\* length field lies at slice_start + that value, the first one at offset 4.
C1_LengthIncludesField ==
    /\ slice_starts # << >> => slice_starts[1] = 4
    /\ \A k \in ClosedSlices :
        /\ AV_RL24(pb.buf, slice_starts[k])
              = 3 + (slice_starts[k + 1] - (slice_starts[k] + 3))
        /\ slice_starts[k + 1] = slice_starts[k] + AV_RL24(pb.buf, slice_starts[k])

\* two closed slices, the first with a payload, the second without
C1_Witness ==
    /\ Len(slice_starts) = 3
    /\ AV_RL24(pb.buf, slice_starts[1]) > 3
    /\ AV_RL24(pb.buf, slice_starts[2]) = 3

\* C2: right after ff_speedhq_encode_picture_header the output is exactly
\* seven bytes: 100 - 2 * qscale, then 4 as a 24-bit little-endian value,
\* then a 24-bit zero; and slice_start is the offset of that zero field.
C2_PictureHeader ==
    last_op = "header" =>
        /\ pb.buf = <<100 - 2 * qscale, 4, 0, 0, 0, 0, 0>>
        /\ pb.bit_cnt = 0
        /\ 100 - 2 * qscale \in 0..255
        /\ slice_start + 3 = Len(pb.buf)
        /\ AV_RL24(pb.buf, slice_start) = 0
        /\ AV_RL24(pb.buf, slice_start - 3) = 4

C2_Witness == last_op = "header" /\ qscale = 7 /\ pb.buf[1] = 86

ClaimedOrder(cf) ==
    IF cf = CHROMA_420 THEN <<0, 1, 2, 3, 4, 5>>
    ELSE IF cf = CHROMA_422 THEN <<0, 1, 2, 3, 4, 5, 6, 7>>
    ELSE <<0, 1, 2, 3, 4, 5, 8, 9, 6, 7, 10, 11>>

\* C3: ff_speedhq_encode_mb encodes the blocks 0..5 for 4:2:0, 0..7 for
\* 4:2:2 and 0,1,2,3,4,5,8,9,6,7,10,11 for 4:4:4, in that order, each once,
\* and each call is handed the block of its index.
C3_BlockOrder ==
    last_op = "mb" =>
        /\ [k \in 1..Len(trace) |-> trace[k].n] = ClaimedOrder(chroma_format)
        /\ \A k \in 1..Len(trace) :
              trace[k].block \in {MbFlat.blocks[trace[k].n],
                                  MbTextured.blocks[trace[k].n]}

\* a 4:4:4 macroblock whose blocks differ, block 8 encoded seventh
C3_Witness ==
    /\ last_op = "mb"
    /\ chroma_format = CHROMA_444
    /\ Len(trace) = 12
    /\ trace[7].n = 8
    /\ trace[7].block = MbTextured.blocks[8]
    /\ trace[9].n = 6

ExpectedRet(a) ==
    IF a.width > 65500 \/ a.height > 65500 THEN "EINVAL"
    ELSE IF a.width % 16 # 0 THEN "PATCHWELCOME"
    ELSE "0"

\* C4 (as stated): ff_speedhq_encode_init returns the invalid-argument
\* error when the width is not a multiple of 16 and when a dimension
\* exceeds 65500, and success otherwise.
C4_InvalidArgumentInBothCases ==
    \A t \in Threads :
        tpc[t] = "returned" =>
            tret[t] = (IF \/ targs[t].width % 16 # 0
                          \/ targs[t].width > 65500
                          \/ targs[t].height > 65500
                       THEN "EINVAL" ELSE "0")

\* C4 (amended): ff_speedhq_encode_init returns the invalid-argument error
\* when the width or the height exceeds 65500; otherwise, when the width is
\* not a multiple of 16, it returns the patch-welcome error; otherwise (with
\* a supported pixel format) it returns success.
C4_InitReturnValue ==
    \A t \in Threads :
        tpc[t] = "returned" => tret[t] = ExpectedRet(targs[t])

\* one call refused for its width alone, one for its size, one accepted at
\* the largest height
C4_Witness ==
    \E t \in Threads :
        /\ tpc[t] = "returned"
        /\ targs[t].width = 24
        /\ targs[t].height = 65500
        /\ tret[t] = "PATCHWELCOME"

\* every AC coefficient of the block within its last index
AcCoefficients(block, li) == {block[permutated[i + 1]] : i \in 1..li}

C6_StaticInitOnce ==
    /\ n_static_init <= 1
    /\ init_static_once = "done" => StaticBuilt
    /\ \A t \in Threads : tpc[t] = "assign" => StaticBuilt
    /\ \A t \in Threads :
          tpc[t] = "returned" /\ tret[t] = "0"
             => /\ StaticBuilt
                /\ tctx[t].intra_ac_vlc_length = "built"

\* every thread has returned success from a call
C6_Witness ==
    /\ NThreads >= 2
    /\ \A t \in Threads : tpc[t] = "returned" /\ tret[t] = "0"

StrictlyIncreasing(s) == \A k \in 1..(Len(s) - 1) : s[k] < s[k + 1]

\* C7: right after ff_speedhq_encode_picture_header and right after every
\* ff_speedhq_end_slice the writer is byte aligned, the last three bytes of
\* the output are a zero 24-bit placeholder and slice_start is its offset,
\* the byte cursor minus 3; slice_start grows with every end_slice.
C7_TrailingPlaceholder ==
    /\ last_op \in {"header", "end_slice"} =>
          /\ pb.bit_cnt = 0
          /\ Len(pb.buf) >= 3
          /\ LastBytes(pb, 3) = <<0, 0, 0>>
          /\ slice_start = put_bytes_count(pb) - 3
    /\ pc = "picture" => slice_start = slice_starts[Len(slice_starts)]
    /\ StrictlyIncreasing(slice_starts)

\* a slice closed on a payload that did not end on a byte boundary
C7_Witness ==
    /\ last_op = "end_slice"
    /\ slice_count = 2
    /\ mb_count = 2
    /\ i_tex_bits % 8 # 0
    /\ slice_start > 10

(***************************************************************************)
(* The AC symbols of a block as the format describes them: one symbol per  *)
(* non-zero coefficient at scan positions 1..last_index, in ascending      *)
(* order, the run counted from the previous non-zero position.             *)
(***************************************************************************)
NonZeroPositions(block, li) == {i \in 1..li : block[permutated[i + 1]] # 0}

PrevNonZero(S, i) ==
    IF {k \in S : k < i} = {} THEN 0
    ELSE CHOOSE k \in S : k < i /\ \A m \in S : m < i => m <= k

ExpectedSymbol(block, S, i) ==
    LET level  == block[permutated[i + 1]]
        run    == i - PrevNonZero(S, i) - 1
        alevel == IF level < 0 THEN -level ELSE level
        sign   == IF level < 0 THEN 1 ELSE 0
    IN  IF alevel <= speedhq_max_level[run]
        THEN LET e  == CHOOSE x \in 1..SPEEDHQ_RL_NB_ELEMS :
                          ff_speedhq_run[x] = run /\ ff_speedhq_level[x] = alevel
                 cl == ff_speedhq_vlc_table(e - 1)
             IN  << <<cl[2] + 1, cl[1] + sign * (2 ^ cl[2])>> >>
        ELSE << <<6, 32>>, <<6, run>>, <<12, level + 2048>> >>

RECURSIVE ExpectedFrom(_, _, _)
ExpectedFrom(block, S, from) ==
    IF {k \in S : k >= from} = {} THEN << >>
    ELSE LET i == CHOOSE k \in S : k >= from /\ \A m \in S : m >= from => k <= m
         IN  ExpectedSymbol(block, S, i) \o ExpectedFrom(block, S, i + 1)

\* C8: after the DC symbol, encode_block emits one run/level symbol per
\* non-zero coefficient at scan positions 1..last_index in ascending order,
\* with run the count of zeros since the previous non-zero position: the
\* table code of len + 1 bits with the sign at bit len when |level| is at
\* most max_level[run], else the escape (32 in 6 bits, run in 6 bits,
\* level + 2048 in 12 bits); then one end of block (6 in 4 bits); a block
\* with last_index 0 emits no AC symbol.
C8_AcSymbols ==
    pc = "blockdone" =>
        LET r  == trace[1]
            ex == ExpectedFrom(in_block, NonZeroPositions(in_block, in_last_index), 1)
        IN  /\ r.acsyms = ex \o << <<4, 6>> >>
            /\ in_last_index = 0 => r.acsyms = << <<4, 6>> >>
            /\ Len(ex) >= Cardinality(NonZeroPositions(in_block, in_last_index))
            /\ pb = PutSyms(EmptyPb, <<r.dcsym>> \o ex \o << <<4, 6>> >>, 1)

\* a block with last index 63 holding a table-coded and an escaped level
C8_Witness ==
    /\ pc = "blockdone"
    /\ in_last_index = 63
    /\ in_block[permutated[2]] = 2
    /\ in_block[permutated[64]] = -1
    /\ Len(trace[1].acsyms) = 5
    /\ trace[1].acsyms[2] = <<6, 32>>
    /\ trace[1].acsyms[3] = <<6, 61>>

(***************************************************************************)
(* The DC difference a DC symbol stands for: the category whose prefix and *)
(* width the symbol has, then the MPEG sign-tail rule.                     *)
(***************************************************************************)
DcCategories(sym, bits_tab, code_tab) ==
    {k \in 0..11 : /\ sym[1] = bits_tab[k + 1] + k
                   /\ sym[2] % (2 ^ bits_tab[k + 1]) = code_tab[k + 1]}

DcDecode(sym, component) ==
    LET bits_tab == IF component = 0 THEN ff_mpeg12_vlc_dc_lum_bits
                    ELSE ff_mpeg12_vlc_dc_chroma_bits
        code_tab == IF component = 0 THEN mpeg12_vlc_dc_lum_code_reversed
                    ELSE mpeg12_vlc_dc_chroma_code_reversed
        ks       == DcCategories(sym, bits_tab, code_tab)
    IN  IF Cardinality(ks) # 1 THEN "undecodable"
        ELSE LET k    == CHOOSE x \in ks : TRUE
                 tail == sym[2] \div (2 ^ bits_tab[k + 1])
             IN  IF k = 0 THEN 0
                 ELSE IF tail >= 2 ^ (k - 1) THEN tail
                 ELSE tail - (2 ^ k - 1)

\* C9: every encode_block call on block n encodes the difference
\* last_dc[c] - block[0] (previous minus current) with c = 0 for n <= 3 and
\* (n & 1) + 1 otherwise, and leaves last_dc[c] = block[0] with the other two
\* predictors unchanged; the DC symbol written decodes to that difference
\* whenever the difference has one of the twelve categories.
C9_DcPrediction ==
    [][blk_count' = blk_count + 1 =>
         LET r    == trace'[1]
             c    == IF r.n <= 3 THEN 0 ELSE (r.n % 2) + 1
             diff == last_dc[c] - r.block[0]
         IN  /\ r.val = diff
             /\ r.component = c
             /\ last_dc' = [last_dc EXCEPT ![c] = r.block[0]]
             /\ (diff > -2048 /\ diff < 2048) => DcDecode(r.dcsym, c) = diff
    ]_vars

\* a chroma block encoded after another one: a non-zero difference against
\* the DC of the first, on the slow path
C9_Witness ==
    /\ blk_count = 2
    /\ trace[1].n = 5
    /\ trace[1].component = 2
    /\ last_dc[2] = 769
    /\ trace[1].val = -1023 - 769
    /\ last_dc[0] = DcBaseline
    /\ last_dc[1] = DcBaseline

\* C10: for every predictor and DC value in -2048..2047 the category index
\* of the DC difference is in 0..11, so every read of the twelve-entry
\* category tables is in bounds, and the DC symbol has a width of 1..32
\* and a value below 2 ^ width.
C10_DcIndexInBounds ==
    \A k \in 1..Len(trace) :
        /\ trace[k].index \in 0..11
        /\ trace[k].dcsym[1] \in 1..32
        /\ trace[k].dcsym[2] >= 0
        /\ trace[k].dcsym[1] <= 30 => trace[k].dcsym[2] < 2 ^ trace[k].dcsym[1]

\* the largest difference the tables hold: category 11
C10_Witness ==
    /\ blk_count = 1
    /\ trace[1].val = 2047
    /\ trace[1].index = 11
====
